---- MODULE Spec2Model ----
(***************************************************************************)
(* Location directory backend: the location repository (CRUDLocation), the *)
(* /locations endpoints in front of it and the derived attributes of the   *)
(* Location entity, over the relational store they share.                  *)
(*                                                                         *)
(* Floats are modelled by integers (coordinates in whole degrees, rating   *)
(* values 1..5); a mean is an exact fraction in lowest terms.  Python None *)
(* is None for text columns, NoneId for nullable foreign keys and the      *)
(* empty set for an optional value that is wrapped in a set.               *)
(***************************************************************************)
EXTENDS Integers, Sequences, FiniteSets, TLC

VARIABLES
    locations,          \* table locations: id -> row
    location_amenities, \* table location_amenities: set of rows
    ratings,            \* table ratings: set of rows
    last,               \* the last request served, the body applied and the response
    users,              \* table users: id -> row
    password_reset_tokens, \* table password_reset_tokens: set of rows
    now,                \* datetime.utcnow(), in hours
    calls               \* the requests of the account endpoints in progress or answered

auth_vars == <<users, password_reset_tokens, now, calls>>
vars == <<locations, location_amenities, ratings, last, users, password_reset_tokens, now, calls>>

(***************************************************************************)
(* Bounds of the model.                                                    *)
(***************************************************************************)
MaxLoc == 2       \* location ids 1..MaxLoc
MaxRatings == 3   \* rating rows the ratings collaborator adds

LocIds == 1..MaxLoc
ReqIds == 1..(MaxLoc + 1)   \* ids a request may carry; MaxLoc + 1 never resolves

\* Values a request body may carry.
UpdNames == {"C"}
UpdLats == {10, 11}
UpdLngs == {21}
AmenityLists == {<<>>, <<"WiFi">>}
RatingValues == {1, 4}

(***************************************************************************)
(* Values.                                                                 *)
(***************************************************************************)
None == "None"
NoneId == 0
SRID == 4326

HTTP_200_OK == 200
HTTP_404_NOT_FOUND == 404
HTTP_500_INTERNAL_SERVER_ERROR == 500

\* Reference data (external collaborator tables): id -> name.
Countries == <<"Viet Nam", "Japan">>
Regions == <<"Ha Noi", "Tokyo">>
Districts == <<"Ba Dinh", "Quan 1">>
Wards == <<"Ben Nghe", "Ta Van">>

\* Every attribute of the mapped class Location: columns, relationships, properties.
LocationAttrs ==
    {"id", "name", "description", "latitude", "longitude", "geom", "address", "city",
     "country_id", "region_id", "district_id", "ward_id", "category_id",
     "thumbnail_url", "price_min", "price_max", "popularity_score", "is_active",
     "created_at", "updated_at", "country", "region", "district", "ward", "category",
     "amenities_rel", "ratings", "address_short", "average_rating"}

hasattr(field) == field \in LocationAttrs

\* The fields of the LocationCreate request schema.
LocationCreateFields ==
    {"name", "description", "latitude", "longitude", "address", "city", "country_id",
     "region_id", "district_id", "ward_id", "category_id", "thumbnail_url",
     "price_min", "price_max", "popularity_score", "is_active", "amenities"}

(***************************************************************************)
(* Geo point codec.                                                        *)
(***************************************************************************)
ST_MakePoint(x, y) == [x |-> x, y |-> y, srid |-> 0]

ST_SetSRID(g, srid) == [g EXCEPT !.srid = srid]

\* dict.get(key, default)
Get(d, key, default) == IF key \in DOMAIN d THEN d[key] ELSE default

(***************************************************************************)
(* Relationships and derived attributes of Location.                       *)
(***************************************************************************)
RECURSIVE SumRatings(_)
SumRatings(rows) ==
    IF rows = {} THEN 0
    ELSE LET r == CHOOSE r \in rows : TRUE
         IN r.rating + SumRatings(rows \ {r})

RECURSIVE Gcd(_, _)
Gcd(a, b) == IF b = 0 THEN a ELSE Gcd(b, a % b)

\* Float division of two non-negative integers, as an exact fraction.
Div(a, b) == LET g == Gcd(a, b) IN <<a \div g, b \div g>>

\* Faulty variant: the relationship without its join on location_id.
ratings_rel_unfiltered(id) == ratings

\* Location.ratings: the rating rows of the location.
ratings_rel(id) == {r \in ratings : r.location_id = id}

\* Location.amenities_rel: the amenity rows of the location.
amenities_rel(id) == {a \in location_amenities : a.location_id = id}

\* Location.ward, .district, .region, .country: the referenced row's name in a
\* set, or the empty set when the foreign key is NULL.
Resolve(table, fk) == IF fk \in DOMAIN table THEN {table[fk]} ELSE {}

RECURSIVE Join(_, _)
Join(sep, parts) ==
    IF parts = <<>> THEN ""
    ELSE IF Len(parts) = 1 THEN parts[1]
    ELSE parts[1] \o sep \o Join(sep, Tail(parts))

SetToSeq1(S) == IF S = {} THEN <<>> ELSE <<CHOOSE x \in S : TRUE>>

address_short(row) ==
    LET ward == Resolve(Wards, row.ward_id)
        district == Resolve(Districts, row.district_id)
        region == Resolve(Regions, row.region_id)
        country == Resolve(Countries, row.country_id)
        unit == IF ward # {} THEN SetToSeq1(ward)
                ELSE IF district # {} THEN SetToSeq1(district)
                ELSE IF region # {} THEN SetToSeq1(region)
                ELSE <<>>
        parts == unit \o SetToSeq1(country)
    IN Join(", ", parts)

\* <<>> is None; <<p, q>> is the mean p/q.
average_rating(id) ==
    IF ratings_rel(id) = {} THEN <<>>
    ELSE Div(SumRatings(ratings_rel(id)), Cardinality(ratings_rel(id)))

\* The entity a handler returns, with its derived attributes.
LocationOut(id) ==
    [id |-> id,
     row |-> locations[id],
     address_short |-> address_short(locations[id]),
     average_rating |-> average_rating(id),
     amenities |-> {a.name : a \in amenities_rel(id)}]

(***************************************************************************)
(* CRUDLocation.                                                           *)
(***************************************************************************)
\* CRUDLocation.get: the row in a set, or the empty set.
CRUDLocation_get(location_id) ==
    IF location_id \in DOMAIN locations THEN {location_id} ELSE {}

\* Faulty variant: geom is rebuilt on every update, with the arguments of
\* ST_MakePoint in (latitude, longitude) order, and assigned.
CRUDLocation_update_regeom(db_obj, obj_in) ==
    LET lat == Get(obj_in, "latitude", db_obj.latitude)
        lng == Get(obj_in, "longitude", db_obj.longitude)
    IN [field \in DOMAIN db_obj |->
            IF field = "geom" THEN ST_SetSRID(ST_MakePoint(lat, lng), SRID)
            ELSE IF field \in DOMAIN obj_in /\ hasattr(field) THEN obj_in[field]
            ELSE db_obj[field]]

\* Faulty variant: model_dump() without exclude_unset, so that the nullable
\* address is overwritten with the schema default None when the body omits it.
CRUDLocation_update_unset(db_obj, obj_in) ==
    [field \in DOMAIN db_obj |->
        IF field \in DOMAIN obj_in /\ hasattr(field) /\ field # "geom" THEN obj_in[field]
        ELSE IF field = "address" THEN None
        ELSE db_obj[field]]

\* The row CRUDLocation.update leaves in db_obj for the body obj_in.
CRUDLocation_update(db_obj, obj_in) ==
    LET update_data == obj_in
        coords == "latitude" \in DOMAIN update_data \/ "longitude" \in DOMAIN update_data
        lat == Get(update_data, "latitude", db_obj.latitude)
        lng == Get(update_data, "longitude", db_obj.longitude)
        geom == ST_SetSRID(ST_MakePoint(lng, lat), SRID)
        data == IF coords THEN ("geom" :> geom) @@ update_data ELSE update_data
    IN [field \in DOMAIN db_obj |->
            IF field \in DOMAIN data /\ hasattr(field) /\ field # "geom"
            THEN data[field]
            ELSE db_obj[field]]

\* The declarative constructor Location(**kwargs) accepts only mapped attributes.
Location_init_accepts(kwargs) == \A k \in kwargs : hasattr(k)

\* Faulty variant: a relationship without cascade keeps the child rows.
CascadeDelete_none(rows, location_id) == rows

\* Rows left after db.delete(obj): the relationships cascade "all, delete-orphan".
CascadeDelete(rows, location_id) == {r \in rows : r.location_id # location_id}

(***************************************************************************)
(* State.                                                                  *)
(***************************************************************************)
NoBody == <<>>

Response(op, id, body, status, result) ==
    [op |-> op, id |-> id, body |-> body, status |-> status, result |-> result]

\* A row as create stores it: geom is the SRID-4326 point of its coordinates.
NewRow(name, lat, lng, address, country_id, region_id, district_id, ward_id) ==
    [name |-> name, latitude |-> lat, longitude |-> lng,
     geom |-> ST_SetSRID(ST_MakePoint(lng, lat), SRID),
     address |-> address, country_id |-> country_id, region_id |-> region_id,
     district_id |-> district_id, ward_id |-> ward_id]

(***************************************************************************)
(* Users and access control (app/api/deps.py).  A bearer token is the id   *)
(* in its "sub" claim; NoToken is a request without Authorization header.  *)
(***************************************************************************)
HTTP_201_CREATED == 201
HTTP_400_BAD_REQUEST == 400
HTTP_401_UNAUTHORIZED == 401
HTTP_403_FORBIDDEN == 403
HTTP_409_CONFLICT == 409

NoToken == 0

UserRow(email, hashed_password, is_active, is_superuser, role) ==
    [email |-> email, hashed_password |-> hashed_password, is_active |-> is_active,
     is_superuser |-> is_superuser, role |-> role]

\* The users the location service starts with: an admin, a regular user, a
\* superuser and a deactivated admin.
SeedUsers ==
    <<UserRow("admin@x.io", "h0", TRUE, FALSE, "admin"),
      UserRow("user@x.io", "h0", TRUE, FALSE, "user"),
      UserRow("root@x.io", "h0", TRUE, TRUE, "user"),
      UserRow("gone@x.io", "h0", FALSE, FALSE, "admin")>>

\* Tokens a request may carry: none, one of a user, one of a user that no
\* longer exists.
Tokens == {NoToken} \cup DOMAIN SeedUsers \cup {Len(SeedUsers) + 1}

Rejected(status_code) == [status |-> status_code, user_id |-> NoToken]
Authenticated(user_id) == [status |-> HTTP_200_OK, user_id |-> user_id]

\* get_current_user: oauth2_scheme rejects a missing token, a token whose
\* user is not found is rejected, an inactive user is a bad request.
get_current_user(token) ==
    IF token = NoToken \/ token \notin DOMAIN users
    THEN Rejected(HTTP_401_UNAUTHORIZED)
    ELSE IF ~users[token].is_active
         THEN Rejected(HTTP_400_BAD_REQUEST)
         ELSE Authenticated(token)

\* The argument of require_role: a string, or (as the reference-data
\* endpoints pass) a list of strings.
Str(value) == [kind |-> "str", value |-> value]
List(values) == [kind |-> "list", value |-> values]

\* Python's role != required_role for a str role: a str differs from every
\* list, whatever the list holds.
python_ne(role, required_role) ==
    IF required_role.kind = "str" THEN role # required_role.value ELSE TRUE

\* Faulty variant: role_checker without its role comparison.
require_role_unchecked(required_role, token) == get_current_user(token)

\* require_role(required_role) -> role_checker(current_user)
require_role(required_role, token) ==
    LET current_user == get_current_user(token)
    IN IF current_user.status # HTTP_200_OK
       THEN current_user
       ELSE IF users[current_user.user_id].is_superuser
            THEN current_user
            ELSE IF python_ne(users[current_user.user_id].role, required_role)
                 THEN Rejected(HTTP_403_FORBIDDEN)
                 ELSE current_user

\* No request of the account endpoints is in progress.
AuthIdle ==
    /\ users = SeedUsers
    /\ password_reset_tokens = {}
    /\ now = 0
    /\ calls = <<>>

\* The store the service starts on: rows written before, geometry consistent.
SeedRow(id) ==
    NewRow(IF id % 2 = 1 THEN "A" ELSE "B", 10, 20,
           IF id % 2 = 1 THEN "12 Le Loi" ELSE None, NoneId, NoneId, NoneId, NoneId)

\* Odd locations own a "Pool" amenity row, even ones own none.
SeedAmenities ==
    {[id |-> id, location_id |-> id, name |-> "Pool"] : id \in {i \in LocIds : i % 2 = 1}}

SeedRatings == {[id |-> id, location_id |-> id, rating |-> 4] : id \in LocIds}

Init ==
    /\ AuthIdle
    /\ locations = [id \in LocIds |-> SeedRow(id)]
    /\ location_amenities = SeedAmenities
    /\ ratings = SeedRatings
    /\ last = Response("none", 0, NoBody, HTTP_200_OK, {})

(***************************************************************************)
(* Request bodies.                                                         *)
(***************************************************************************)
Opt(key, values) == {NoBody} \cup {key :> v : v \in values}

\* LocationUpdate bodies: the fields set in the request (exclude_unset).
UpdateBodies ==
    {n @@ la @@ lo @@ am :
        n \in Opt("name", UpdNames), la \in Opt("latitude", UpdLats),
        lo \in Opt("longitude", UpdLngs), am \in Opt("amenities", AmenityLists)}

\* LocationCreate bodies: amenities is None ({}) or a list ({L}).
CreateBodies ==
    [name : UpdNames, latitude : UpdLats, longitude : UpdLngs,
     amenities : {{}, {<<"WiFi">>}}]

(***************************************************************************)
(* Handlers of /locations.                                                 *)
(***************************************************************************)
\* POST /locations/ -> CRUDLocation.create.  obj_in.model_dump() carries every
\* field of LocationCreate, "amenities" included, and Location(**location_data,
\* geom=geom) is the declarative constructor, which raises TypeError for a
\* keyword that is not an attribute of the mapped class.  Location has
\* amenities_rel but no "amenities", so the constructor raises before db.add:
\* nothing is stored and the request ends as an unhandled error.
\* The dependency require_role("admin") is resolved before the handler runs:
\* a rejected request never reaches CRUDLocation.create.
create_location(token, location_in) ==
    /\ LET current_user == require_role(Str("admin"), token)
       IN IF current_user.status # HTTP_200_OK
          THEN last' = Response("create", 0, NoBody, current_user.status, {})
          ELSE /\ ~Location_init_accepts(LocationCreateFields \cup {"geom"})
               /\ last' = Response("create", 0, NoBody, HTTP_500_INTERNAL_SERVER_ERROR, {})
    /\ UNCHANGED <<locations, location_amenities, ratings, auth_vars>>

\* Faulty variant: the handler without its "if not result" check answers 200.
read_location_unchecked(location_id) ==
    /\ last' = Response("read", location_id, NoBody, HTTP_200_OK,
                        {LocationOut(id) : id \in CRUDLocation_get(location_id)})
    /\ UNCHANGED <<locations, location_amenities, ratings, auth_vars>>

\* GET /locations/{location_id}
read_location(location_id) ==
    LET result == CRUDLocation_get(location_id)
    IN /\ last' = IF result = {}
                  THEN Response("read", location_id, NoBody, HTTP_404_NOT_FOUND, {})
                  ELSE Response("read", location_id, NoBody, HTTP_200_OK,
                                {LocationOut(location_id)})
       /\ UNCHANGED <<locations, location_amenities, ratings, auth_vars>>

\* PUT /locations/{location_id} -> CRUDLocation.update
update_location(location_id, location_in) ==
    LET result == CRUDLocation_get(location_id)
    IN IF result = {}
       THEN /\ last' = Response("update", location_id, NoBody, HTTP_404_NOT_FOUND, {})
            /\ UNCHANGED <<locations, location_amenities, ratings, auth_vars>>
       ELSE /\ locations' = [locations EXCEPT ![location_id] =
                                CRUDLocation_update(locations[location_id], location_in)]
            /\ UNCHANGED <<location_amenities, ratings, auth_vars>>
            /\ last' = Response("update", location_id, location_in, HTTP_200_OK,
                                {LocationOut(location_id)'})

\* DELETE /locations/{location_id} -> CRUDLocation.delete
delete_location(location_id) ==
    LET result == CRUDLocation_get(location_id)
    IN IF result = {}
       THEN /\ last' = Response("delete", location_id, NoBody, HTTP_404_NOT_FOUND, {})
            /\ UNCHANGED <<locations, location_amenities, ratings, auth_vars>>
       ELSE /\ locations' = [id \in DOMAIN locations \ {location_id} |-> locations[id]]
            /\ location_amenities' = CascadeDelete(location_amenities, location_id)
            /\ ratings' = CascadeDelete(ratings, location_id)
            /\ last' = Response("delete", location_id, NoBody, HTTP_200_OK,
                                {LocationOut(location_id)})
            /\ UNCHANGED auth_vars

Next ==
    \/ \E token \in Tokens, location_in \in CreateBodies : create_location(token, location_in)
    \/ \E location_id \in ReqIds : read_location(location_id)
    \/ \E location_id \in ReqIds, location_in \in UpdateBodies :
            update_location(location_id, location_in)
    \/ \E location_id \in ReqIds : delete_location(location_id)

Spec == Init /\ [][Next]_vars

(***************************************************************************)
(* The read side: the derived attributes of a location whose address       *)
(* columns are drawn from every resolved/unresolved combination, read      *)
(* while the ratings collaborator adds rating rows.                        *)
(***************************************************************************)
Addresses == {"12 Le Loi", "5 Hang Bai"}

InitRead ==
    /\ AuthIdle
    /\ \E address \in Addresses, country_id \in {NoneId, 1}, region_id \in {NoneId, 2},
          district_id \in {NoneId, 1}, ward_id \in {NoneId, 2} :
            locations = [id \in LocIds |->
                            IF id = 1
                            THEN NewRow("A", 10, 20, address, country_id, region_id,
                                        district_id, ward_id)
                            ELSE SeedRow(id)]
    /\ location_amenities = SeedAmenities
    /\ ratings = {}
    /\ last = Response("none", 0, NoBody, HTTP_200_OK, {})

\* The ratings collaborator stores a rating of an existing location.
rating_added(location_id, rating) ==
    /\ Cardinality(ratings) < MaxRatings
    /\ location_id \in DOMAIN locations
    /\ ratings' = ratings \cup {[id |-> Cardinality(ratings) + 1,
                                 location_id |-> location_id, rating |-> rating]}
    /\ last' = Response("rate", location_id, NoBody, HTTP_200_OK, {})
    /\ UNCHANGED <<locations, location_amenities, auth_vars>>

NextRead ==
    \/ \E location_id \in ReqIds : read_location(location_id)
    \/ \E location_id \in LocIds, rating \in RatingValues :
            rating_added(location_id, rating)

SpecRead == InitRead /\ [][NextRead]_vars

(***************************************************************************)
(* Filtered search: GET /locations/ -> CRUDLocation.get_multi_filter.      *)
(* Text columns are strings, None for NULL.  Optional numbers of the       *)
(* request and NULL-able numeric columns are sets, {} for None/NULL and    *)
(* {v} for a value.  Relationship loading options select no rows and are   *)
(* not modelled.                                                           *)
(***************************************************************************)
HTTP_422_UNPROCESSABLE_ENTITY == 422

\* class SortOption
POPULARITY_DESC == "popularity_desc"
POPULARITY_ASC == "popularity_asc"
NAME_ASC == "name_asc"
NAME_DESC == "name_desc"
RATING_DESC == "rating_desc"
RATING_ASC == "rating_asc"
PRICE_ASC == "price_asc"
PRICE_DESC == "price_desc"
SortOption ==
    {POPULARITY_DESC, POPULARITY_ASC, NAME_ASC, NAME_DESC,
     RATING_DESC, RATING_ASC, PRICE_ASC, PRICE_DESC}

\* Characters in their byte order, and the letters that have a lower case.
Alphabet == " 0123456789ABCDEFGHIJKLMNOPQRSTUVWXYZabcdefghijklmnopqrstuvwxyz"
Upper == "ABCDEFGHIJKLMNOPQRSTUVWXYZ"
Lower == "abcdefghijklmnopqrstuvwxyz"

IndexIn(str, c) ==
    IF \E i \in 1..Len(str) : SubSeq(str, i, i) = c
    THEN CHOOSE i \in 1..Len(str) : SubSeq(str, i, i) = c
    ELSE 0

lower_char(c) ==
    IF IndexIn(Upper, c) = 0 THEN c
    ELSE SubSeq(Lower, IndexIn(Upper, c), IndexIn(Upper, c))

RECURSIVE lower(_)
lower(s) ==
    IF s = "" THEN ""
    ELSE lower_char(SubSeq(s, 1, 1)) \o lower(SubSeq(s, 2, Len(s)))

contains(text, term) ==
    \E i \in 1..(Len(text) - Len(term) + 1) :
        SubSeq(text, i, i + Len(term) - 1) = term

\* column.ilike(f"%{term}%"): NULL matches nothing, case is folded.
ilike(column, term) ==
    /\ column # None
    /\ contains(lower(column), lower(term))

\* String order of ORDER BY on a text column.
RECURSIVE str_less(_, _)
str_less(a, b) ==
    IF b = "" THEN FALSE
    ELSE IF a = "" THEN TRUE
    ELSE IF SubSeq(a, 1, 1) = SubSeq(b, 1, 1)
         THEN str_less(SubSeq(a, 2, Len(a)), SubSeq(b, 2, Len(b)))
         ELSE IndexIn(Alphabet, SubSeq(a, 1, 1)) < IndexIn(Alphabet, SubSeq(b, 1, 1))

\* Python truthiness of an optional string and of an optional integer.
truthy_str(s) == s # None /\ s # ""
truthy_int(n) == n # NoneId

\* Amenity joined to LocationAmenity: the (location_id, name) pairs.
amenity_join == {[location_id |-> a.location_id, name |-> a.name] : a \in location_amenities}

\* select(LocationAmenity.location_id).join(Amenity).where(Amenity.name == amenity_name)
amenity_subquery(amenity_name) ==
    {a.location_id : a \in {j \in amenity_join : j.name = amenity_name}}

\* Faulty variant: one subquery for any of the names instead of one per name.
all_amenities_any(id, names) ==
    \E i \in DOMAIN names : id \in amenity_subquery(names[i])

\* for amenity_name in filter_params.amenities: query.where(Location.id.in_(subquery))
all_amenities(id, names) ==
    \A i \in DOMAIN names : id \in amenity_subquery(names[i])

\* The columns and the rows of the min_rating subquery: per rated location its
\* id and avg(rating), kept when avg(rating) >= min_rating.
avg_rating_columns == <<"location_id", "avg_rating">>
avg_rating_subquery(min_rating) ==
    {[location_id |-> id, avg_rating |-> average_rating(id)] :
        id \in {l \in {r.location_id : r \in ratings} :
                    SumRatings(ratings_rel(l)) >= min_rating * Cardinality(ratings_rel(l))}}

\* x IN (subquery) is a statement the database accepts only for a subquery of
\* one column; the min_rating subquery selects two.
query_fails(filter_params) ==
    filter_params.min_rating # {} /\ Len(avg_rating_columns) # 1

\* Faulty variant: the is_active condition is left out.
where_is_active_any(row) == TRUE

\* query.where(Location.is_active == True)
where_is_active(row) == row.is_active = TRUE

\* The WHERE conditions of _apply_filters on one row.
CRUDLocation_apply_filters(id, filter_params) ==
    LET row == locations[id] IN
    /\ where_is_active(row)
    /\ truthy_str(filter_params.search_term) =>
          \/ ilike(row.name, filter_params.search_term)
          \/ ilike(row.description, filter_params.search_term)
          \/ ilike(row.address, filter_params.search_term)
          \/ ilike(row.city, filter_params.search_term)
    /\ truthy_int(filter_params.country_id) => row.country_id = filter_params.country_id
    /\ truthy_int(filter_params.region_id) => row.region_id = filter_params.region_id
    /\ truthy_int(filter_params.category_id) => row.category_id = filter_params.category_id
    /\ \A lo \in filter_params.price_range_min : \E p \in row.price_min : p >= lo
    /\ \A hi \in filter_params.price_range_max : \E p \in row.price_max : p <= hi
    /\ \A names \in filter_params.amenities : all_amenities(id, names)
    /\ \A m \in filter_params.min_rating :
          id \in {s.location_id : s \in avg_rating_subquery(m)}

\* The value of an ORDER BY expression on one location, {} for NULL.  Numbers
\* are fractions <<p, q>>, avg(rating) included.
order_key(id, column) ==
    CASE column = "name" -> {locations[id].name}
      [] column = "popularity_score" -> {<<locations[id].popularity_score, 1>>}
      [] column = "price_min" -> {<<p, 1>> : p \in locations[id].price_min}
      [] column = "price_max" -> {<<p, 1>> : p \in locations[id].price_max}
      [] column = "avg_rating" ->
            IF ratings_rel(id) = {} THEN {} ELSE {average_rating(id)}

key_less(column, x, y) ==
    IF column = "name" THEN str_less(x, y) ELSE x[1] * y[2] < y[1] * x[2]

\* asc(column): a sorts strictly before b; NULL sorts last.
asc(column, a, b) ==
    \E x \in order_key(a, column) :
        \A y \in order_key(b, column) : key_less(column, x, y)

\* desc(column): a sorts strictly before b; NULL sorts first.
desc(column, a, b) ==
    \E y \in order_key(b, column) :
        \A x \in order_key(a, column) : key_less(column, y, x)

\* if not sort_by: query.order_by(asc(Location.name))
default_order(a, b) == asc("name", a, b)

\* _apply_sorting: whether a must come strictly before b under sort_by.
CRUDLocation_apply_sorting(sort_by, a, b) ==
    IF sort_by = None THEN default_order(a, b)
    ELSE CASE sort_by = NAME_ASC -> asc("name", a, b)
           [] sort_by = NAME_DESC -> desc("name", a, b)
           [] sort_by = POPULARITY_ASC -> asc("popularity_score", a, b)
           [] sort_by = POPULARITY_DESC -> desc("popularity_score", a, b)
           [] sort_by = RATING_ASC -> asc("avg_rating", a, b)
           [] sort_by = RATING_DESC -> desc("avg_rating", a, b)
           [] sort_by = PRICE_ASC -> asc("price_min", a, b)
           [] sort_by = PRICE_DESC -> desc("price_max", a, b)

Injective(seq) == \A i, j \in DOMAIN seq : seq[i] = seq[j] => i = j

\* The row orders the database may produce for the matching rows: every
\* arrangement that respects ORDER BY (rows with equal keys in any order).
result_orders(matching, sort_by) ==
    {seq \in [1..Cardinality(matching) -> matching] :
        /\ Injective(seq)
        /\ \A i, j \in DOMAIN seq :
              i < j => ~CRUDLocation_apply_sorting(sort_by, seq[j], seq[i])}

\* query.offset(offset).limit(size) on the rows in order.
offset_limit(rows, offset, size) ==
    SubSeq(rows, offset + 1, IF offset + size < Len(rows) THEN offset + size ELSE Len(rows))

ceil(n, d) == (n + d - 1) \div d

\* Faulty variant: the count is taken of the page instead of the whole match.
count_query_of_page(filter_params) ==
    LET n == Cardinality({id \in DOMAIN locations :
                              CRUDLocation_apply_filters(id, filter_params)})
        left == n - (filter_params.page - 1) * filter_params.size
    IN IF left < 0 THEN 0
       ELSE IF left < filter_params.size THEN left ELSE filter_params.size

\* select(func.count(Location.id.distinct())) under _apply_filters
count_query(filter_params) ==
    Cardinality({id \in DOMAIN locations : CRUDLocation_apply_filters(id, filter_params)})

\* Faulty variant: the offset counts pages from zero.
page_offset_from_zero(filter_params) == filter_params.page * filter_params.size

\* offset = (filter_params.page - 1) * filter_params.size
page_offset(filter_params) == (filter_params.page - 1) * filter_params.size

\* total_pages = ceil(total_count / filter_params.size) if total_count > 0 else 1
total_pages_of(total_count, size) ==
    IF total_count > 0 THEN ceil(total_count, size) ELSE 1

\* get_multi_filter: (locations, total_count, total_pages) for one of the row
\* orders the database may produce.
CRUDLocation_get_multi_filter(filter_params, rows) ==
    LET total_count == count_query(filter_params)
    IN [locations |-> offset_limit(rows, page_offset(filter_params), filter_params.size),
        total_count |-> total_count,
        total_pages |-> total_pages_of(total_count, filter_params.size)]

\* LocationFilterParams.validate_page
validate_page(v) == IF v < 1 THEN 1 ELSE v

\* LocationFilterParams.validate_size
validate_size(v) == IF v < 1 THEN 20 ELSE IF v > 100 THEN 100 ELSE v

\* The Query(...) constraints of read_locations, which FastAPI checks first.
query_valid(request) ==
    /\ request.page >= 1
    /\ request.size >= 1 /\ request.size <= 100
    /\ \A m \in request.min_rating : m >= 0 /\ m <= 5

\* LocationFilterParams(page=page, ..., sort_by=sort_by): read_locations has
\* no district_id and no ward_id parameter, so these stay at their default.
LocationFilterParams(request) ==
    [request EXCEPT !.page = validate_page(@), !.size = validate_size(@),
                    !.district_id = NoneId, !.ward_id = NoneId]

\* The response envelope of read_locations.
Envelope(result, page) ==
    [items |-> result.locations, total_items |-> result.total_count,
     total_pages |-> result.total_pages, current_page |-> page]

\* GET /locations/ -> read_locations, serving the request that is pending.
read_locations ==
    /\ last.op = "pending"
    /\ LET request == last.body
           filter_params == LocationFilterParams(request)
           matching == {id \in DOMAIN locations :
                            CRUDLocation_apply_filters(id, filter_params)}
       IN IF ~query_valid(request)
          THEN last' = Response("search", 0, request, HTTP_422_UNPROCESSABLE_ENTITY, {})
          ELSE IF query_fails(filter_params)
          THEN last' = Response("search", 0, request, HTTP_500_INTERNAL_SERVER_ERROR, {})
          ELSE \E rows \in result_orders(matching, filter_params.sort_by) :
                  last' = Response("search", 0, request, HTTP_200_OK,
                            {Envelope(CRUDLocation_get_multi_filter(filter_params, rows),
                                      request.page)})
    /\ UNCHANGED <<locations, location_amenities, ratings, auth_vars>>

\* The store the search runs on.
SearchIds == 1..(MaxLoc + 1)
SearchNames == <<"Cafe Le", "Bar", "Dorm", "Zoo">>
SearchDescriptions == <<None, "Quiet spot near LE LOI", None, None>>
SearchAddresses == <<"12 Hang Bai", None, "3 Tran Phu", "9 Le Duan">>
SearchCities == <<"Hue", None, "Pleiku", "Hanoi">>
SearchKeys == <<1, 2, 1, NoneId>>
SearchPriceMin == <<{10}, {}, {30}, {20}>>
SearchPriceMax == <<{50}, {}, {40}, {25}>>
PopularityTables == {<<40, 30, 20, 10>>, <<0, 0, 0, 0>>}

FilterRow(id, is_active, popularity_score) ==
    NewRow(SearchNames[id], 10, 20, SearchAddresses[id], SearchKeys[id],
           SearchKeys[id], (id % 2) + 1, (id % 2) + 1)
    @@ [description |-> SearchDescriptions[id], city |-> SearchCities[id],
        category_id |-> SearchKeys[id], price_min |-> SearchPriceMin[id],
        price_max |-> SearchPriceMax[id], popularity_score |-> popularity_score,
        is_active |-> is_active]

SearchAmenities ==
    {[id |-> 1, location_id |-> 1, name |-> "WiFi"],
     [id |-> 2, location_id |-> 1, name |-> "Pool"],
     [id |-> 3, location_id |-> 2, name |-> "WiFi"],
     [id |-> 4, location_id |-> 3, name |-> "Pool"]}

SearchRatings(v) ==
    {[id |-> i, location_id |-> ((i - 1) % 2) + 1, rating |-> IF i = 1 THEN 4 ELSE v] :
        i \in 1..MaxRatings}

\* The requests: pagination and sorting over a search term, and combinations
\* of at most MaxFilters filters on the first page.
MaxFilters == 2
Pages == {0, 1, 2, 3}
Sizes == {0, 1, 2, 150}
SearchTerms == {None, "LE", "bai"}
FilterKeys == {NoneId, 1}
AmenityFilters == {{}, {<<>>}, {<<"WiFi">>}, {<<"WiFi", "Pool">>}, {<<"Wi">>}}
NoFilters ==
    [search_term |-> None, country_id |-> NoneId, region_id |-> NoneId,
     district_id |-> NoneId, ward_id |-> NoneId, category_id |-> NoneId,
     price_range_min |-> {}, price_range_max |-> {}, amenities |-> {},
     min_rating |-> {}]
Supplied(f) == Cardinality({k \in DOMAIN f : f[k] # NoFilters[k]})
Filters ==
    {f \in [search_term : SearchTerms, country_id : FilterKeys, region_id : FilterKeys,
            district_id : FilterKeys, ward_id : FilterKeys, category_id : FilterKeys,
            price_range_min : {{}, {15}}, price_range_max : {{}, {30}},
            amenities : AmenityFilters, min_rating : {{}, {4}}] :
        Supplied(f) <= MaxFilters}
Requests ==
    {[page |-> p, size |-> s, sort_by |-> o] @@ [NoFilters EXCEPT !.search_term = t] :
        p \in Pages, s \in Sizes, o \in SortOption \cup {None}, t \in {None, "LE"}}
    \cup {[page |-> 1, size |-> 100, sort_by |-> None] @@ f : f \in Filters}

InitSearch ==
    /\ AuthIdle
    /\ \E active \in [SearchIds -> BOOLEAN], popularity \in PopularityTables :
          locations = [id \in SearchIds |-> FilterRow(id, active[id], popularity[id])]
    /\ location_amenities = {a \in SearchAmenities : a.location_id \in SearchIds}
    /\ ratings \in {{}} \cup {SearchRatings(v) : v \in RatingValues}
    /\ \E request \in Requests : last = Response("pending", 0, request, 0, {})

NextSearch == read_locations

SpecSearch == InitSearch /\ [][NextSearch]_vars

(***************************************************************************)
(* A client that reads the pages of one search one after the other, with   *)
(* no mutation in between.  Each page is its own request, so each is       *)
(* served from a row order the database produces for that request.         *)
(***************************************************************************)
PageSizes == {1, 2}
PageRequests ==
    {[page |-> 1, size |-> s, sort_by |-> o] @@ [NoFilters EXCEPT !.search_term = t] :
        s \in PageSizes, o \in SortOption \cup {None}, t \in {None, "LE"}}

\* GET /locations/ for the page after those read so far, while the first
\* response announces more pages.
read_next_page ==
    /\ last.op = "paging"
    /\ last.result # <<>> => Len(last.result) < last.result[1].total_pages
    /\ LET request == [last.body EXCEPT !.page = Len(last.result) + 1]
           filter_params == LocationFilterParams(request)
           matching == {id \in DOMAIN locations :
                            CRUDLocation_apply_filters(id, filter_params)}
       IN /\ query_valid(request) /\ ~query_fails(filter_params)
          /\ \E rows \in result_orders(matching, filter_params.sort_by) :
                last' = [last EXCEPT !.result =
                            Append(@, Envelope(CRUDLocation_get_multi_filter(filter_params, rows),
                                               request.page))]
    /\ UNCHANGED <<locations, location_amenities, ratings, auth_vars>>

InitPages ==
    /\ AuthIdle
    /\ \E active \in [SearchIds -> BOOLEAN], popularity \in PopularityTables :
          locations = [id \in SearchIds |-> FilterRow(id, active[id], popularity[id])]
    /\ location_amenities = {a \in SearchAmenities : a.location_id \in SearchIds}
    /\ ratings \in {{}} \cup {SearchRatings(v) : v \in RatingValues}
    /\ \E request \in PageRequests : last = Response("paging", 0, request, HTTP_200_OK, <<>>)

NextPages == read_next_page

SpecPages == InitPages /\ [][NextPages]_vars

(***************************************************************************)
(* Nearby search.  The repository operation nearby(lat, lng, radiusKm,     *)
(* limit, categoryId?) has no implementation among the sources; it is      *)
(* modelled from its description: radius filter, optional exact category   *)
(* filter, ascending distance, truncation to limit.  Only the request      *)
(* schema NearbyLocationRequest is code.                                   *)
(*                                                                         *)
(* Coordinates of this part are in thousandths of a degree and a radius is *)
(* in tenths of a kilometre, so that 10.001 degrees and 0.1 km are         *)
(* integers.  Over the few kilometres of a nearby search the distance on   *)
(* the sphere is the planar one, MetresPerUnit metres for each thousandth  *)
(* of a degree; distances are compared through their squares.              *)
(***************************************************************************)
MetresPerUnit == 111
MetresPerRadiusUnit == 100

\* Fields of NearbyLocationRequest: radius ge 0.1 le 50.0, limit ge 1 le 100.
RadiusMin == 1
RadiusMax == 500
LimitMin == 1
LimitMax == 100

nearby_valid(request) ==
    /\ request.radius >= RadiusMin /\ request.radius <= RadiusMax
    /\ request.limit >= LimitMin /\ request.limit <= LimitMax

\* distance_sort_key(location, origin): the square of the distance in metres.
distance_sort_key(id, origin) ==
    LET dy == (locations[id].latitude - origin.latitude) * MetresPerUnit
        dx == (locations[id].longitude - origin.longitude) * MetresPerUnit
    IN dx * dx + dy * dy

within_radius_any(id, request) == TRUE

\* distance to the origin <= radiusKm * 1000 metres
within_radius(id, request) ==
    distance_sort_key(id, request) <=
        (request.radius * MetresPerRadiusUnit) * (request.radius * MetresPerRadiusUnit)

category_matches(id, request) ==
    truthy_int(request.category_id) => locations[id].category_id = request.category_id

nearby_filter(request) ==
    {id \in DOMAIN locations : within_radius(id, request) /\ category_matches(id, request)}

\* The lists of ids that hold each id once, closer locations first; locations
\* at the same distance come in either order.
by_distance(ids, origin) ==
    {rows \in [1..Cardinality(ids) -> ids] :
        /\ Injective(rows)
        /\ \A i, j \in DOMAIN rows :
              i < j => distance_sort_key(rows[i], origin) <= distance_sort_key(rows[j], origin)}

truncate(rows, limit) == SubSeq(rows, 1, IF limit < Len(rows) THEN limit ELSE Len(rows))

\* POST /locations/nearby
nearby ==
    /\ last.op = "pending_nearby"
    /\ LET request == last.body
       IN IF ~nearby_valid(request)
          THEN last' = Response("nearby", 0, request, HTTP_422_UNPROCESSABLE_ENTITY, {})
          ELSE \E rows \in by_distance(nearby_filter(request), request) :
                  last' = Response("nearby", 0, request, HTTP_200_OK,
                                   {truncate(rows, request.limit)})
    /\ UNCHANGED <<locations, location_amenities, ratings, auth_vars>>

\* Places around (10.0, 20.0): the point itself, (10.001, 20.001), two places
\* at the same distance of about 0.9 km, and one about 6.7 km away.
NearbyPlaces ==
    {[latitude |-> 10000, longitude |-> 20000], [latitude |-> 10001, longitude |-> 20001],
     [latitude |-> 10008, longitude |-> 20000], [latitude |-> 10000, longitude |-> 19992],
     [latitude |-> 10060, longitude |-> 20000]}

NearbyRow(id, place) ==
    [FilterRow(id, TRUE, 0) EXCEPT !.latitude = place.latitude,
                                   !.longitude = place.longitude,
                                   !.geom = ST_SetSRID(ST_MakePoint(place.longitude,
                                                                    place.latitude), SRID)]

NearbyRequests ==
    {[latitude |-> 10000, longitude |-> 20000, radius |-> r, limit |-> l, category_id |-> c] :
        r \in {0, 1, 10, 50}, l \in {0, 1, 2, 20}, c \in FilterKeys}

InitNearby ==
    /\ AuthIdle
    /\ \E place \in [SearchIds -> NearbyPlaces] :
          locations = [id \in SearchIds |-> NearbyRow(id, place[id])]
    /\ location_amenities = {a \in SearchAmenities : a.location_id \in SearchIds}
    /\ ratings = {}
    /\ \E request \in NearbyRequests : last = Response("pending_nearby", 0, request, HTTP_200_OK, {})

NextNearby == nearby

SpecNearby == InitNearby /\ [][NextNearby]_vars

(***************************************************************************)
(* Access control of the guarded endpoints, over every combination of      *)
(* role, superuser flag and active flag of two accounts.                   *)
(***************************************************************************)
\* Values of the Role enumeration the reference-data endpoints list.
Role_SUPER_ADMIN == "super_admin"
Role_ADMIN == "admin"
Role_MODERATOR == "moderator"
Role_USER == "user"

\* The continents table; no operation of the model writes it.
SeedContinents == {"AS", "EU"}

\* GET /continents, guarded by require_role([SUPER_ADMIN, ADMIN, MODERATOR, USER])
get_all_continents(token) ==
    /\ LET current_user == require_role(List(<<Role_SUPER_ADMIN, Role_ADMIN,
                                                Role_MODERATOR, Role_USER>>), token)
       IN IF current_user.status # HTTP_200_OK
          THEN last' = Response("continents", 0, NoBody, current_user.status, {})
          ELSE last' = Response("continents", 0, NoBody, HTTP_200_OK, SeedContinents)
    /\ UNCHANGED <<locations, location_amenities, ratings, auth_vars>>

AccessRoles == {"admin", "user", "guest"}

AccessRows ==
    {UserRow("u@x.io", "h0", is_active, is_superuser, role) :
        is_active \in BOOLEAN, is_superuser \in BOOLEAN, role \in AccessRoles}

InitAccess ==
    /\ locations = [id \in LocIds |-> SeedRow(id)]
    /\ location_amenities = SeedAmenities
    /\ ratings = SeedRatings
    /\ last = Response("none", 0, NoBody, HTTP_200_OK, {})
    /\ \E first \in AccessRows, second \in AccessRows :
          users = <<first, [second EXCEPT !.email = "v@x.io"]>>
    /\ password_reset_tokens = {}
    /\ now = 0
    /\ calls = <<>>

NextAccess ==
    \/ \E token \in Tokens, location_in \in CreateBodies : create_location(token, location_in)
    \/ \E token \in Tokens : get_all_continents(token)

SpecAccess == InitAccess /\ [][NextAccess]_vars

(***************************************************************************)
(* The account endpoints (app/api/v1/endpoints/auth.py) over CRUDUser.     *)
(* A handler runs as a sequence of steps, one for each database round trip *)
(* it awaits, and the steps of concurrent requests interleave.  calls      *)
(* holds one record for each request: its input, the step it is at (pc),   *)
(* what it has read so far, and its response once it is answered.          *)
(***************************************************************************)
MaxCalls == 2    \* requests of the account endpoints in one run
MaxTicks == 3    \* clock ticks in one run

expiration_hours == 24

\* The clock advances by half the lifetime of a token.
tick ==
    /\ now < MaxTicks * (expiration_hours \div 2)
    /\ now' = now + expiration_hours \div 2
    /\ UNCHANGED <<locations, location_amenities, ratings, last, users,
                   password_reset_tokens, calls>>

Call(op, input, pc, read, status, body) ==
    [op |-> op, input |-> input, pc |-> pc, read |-> read, status |-> status, body |-> body]

Answered(op, input, status, body) == Call(op, input, "done", {}, status, body)

\* The calls at step pc of handler op.
At(op, pc) == {c \in DOMAIN calls : calls[c].op = op /\ calls[c].pc = pc}

get_password_hash(password) == "hash:" \o password

\* CRUDUser.get_by_email
CRUDUser_get_by_email(email) == {id \in DOMAIN users : users[id].email = email}

\* Faulty variant: a users table without the unique index on email.
email_is_taken_never(email) == FALSE

\* The unique index on users.email refuses a second row with the email.
email_is_taken(email) == \E id \in DOMAIN users : users[id].email = email

\* POST /auth/register, up to the answer of get_by_email.
register(user_in) ==
    /\ Len(calls) < MaxCalls
    /\ calls' = Append(calls,
                       IF CRUDUser_get_by_email(user_in.email) # {}
                       THEN Answered("register", user_in, HTTP_409_CONFLICT, "email in use")
                       ELSE Call("register", user_in, "create", {}, 0, None))
    /\ UNCHANGED <<locations, location_amenities, ratings, last, users,
                   password_reset_tokens, now>>

\* CRUDUser.create: db.add, db.commit.  The commit fails with IntegrityError
\* when the email has been taken meanwhile, and the request ends as an
\* unhandled error.
CRUDUser_create(c) ==
    /\ c \in At("register", "create")
    /\ LET obj_in == calls[c].input
       IN IF email_is_taken(obj_in.email)
          THEN /\ calls' = [calls EXCEPT ![c] =
                              Answered("register", obj_in, HTTP_500_INTERNAL_SERVER_ERROR,
                                       "IntegrityError")]
               /\ UNCHANGED users
          ELSE /\ users' = Append(users, UserRow(obj_in.email,
                                                 get_password_hash(obj_in.password),
                                                 TRUE, FALSE, obj_in.role))
               /\ calls' = [calls EXCEPT ![c] =
                              Answered("register", obj_in, HTTP_201_CREATED, obj_in.email)]
    /\ UNCHANGED <<locations, location_amenities, ratings, last, password_reset_tokens, now>>

UserCreate ==
    [email : {"user@x.io", "new@x.io", "more@x.io"}, password : {"secret-1"}, role : {"user", "admin"}]

InitRegister ==
    /\ locations = [id \in LocIds |-> SeedRow(id)]
    /\ location_amenities = SeedAmenities
    /\ ratings = SeedRatings
    /\ last = Response("none", 0, NoBody, HTTP_200_OK, {})
    /\ AuthIdle

NextRegister ==
    \/ \E user_in \in UserCreate : register(user_in)
    \/ \E c \in DOMAIN calls : CRUDUser_create(c)

SpecRegister == InitRegister /\ [][NextRegister]_vars

(***************************************************************************)
(* Password recovery: POST /auth/forgot-password and /auth/reset-password. *)
(***************************************************************************)
TokenRow(id, user_id, expires_at, is_used) ==
    [id |-> id, token |-> id, user_id |-> user_id, expires_at |-> expires_at,
     is_used |-> is_used]

\* PasswordResetToken.generate_token: a fresh token value, valid for
\* expiration_hours from now.
generate_token(user_id) ==
    TokenRow(Cardinality(password_reset_tokens) + 1, user_id, now + expiration_hours, FALSE)

\* PasswordResetToken.is_valid
is_valid(row) == ~row.is_used /\ now <= row.expires_at

\* The WHERE clause shared by the two token queries of CRUDUser.
unused_and_unexpired(row) == row.is_used = FALSE /\ row.expires_at > now

\* CRUDUser.get_valid_password_reset_token
get_valid_password_reset_token(token) ==
    {row \in password_reset_tokens : row.token = token /\ unused_and_unexpired(row)}

success_response == "Neu email ton tai, mot lien ket dat lai mat khau da duoc gui."

\* Faulty variant: an unknown email answered as not found.
early_return_not_found == [status |-> HTTP_404_NOT_FOUND, body |-> "not found"]

\* forgot_password: "if not db_user or not db_user.is_active: return success_response"
early_return == [status |-> HTTP_200_OK, body |-> success_response]

\* POST /auth/forgot-password, up to the answer of get_by_email.
forgot_password(email) ==
    /\ Len(calls) < MaxCalls
    /\ LET db_user == CRUDUser_get_by_email(email)
       IN calls' = Append(calls,
                          IF db_user = {} \/ \E id \in db_user : ~users[id].is_active
                          THEN Answered("forgot", email, early_return.status, early_return.body)
                          ELSE Call("forgot", email, "select", db_user, 0, None))
    /\ UNCHANGED <<locations, location_amenities, ratings, last, users,
                   password_reset_tokens, now>>

\* CRUDUser.create_password_reset_token, the query for the user's tokens that
\* are unused and unexpired.
select_existing_tokens(c) ==
    /\ c \in At("forgot", "select")
    /\ LET existing_tokens == {row.id : row \in
                                  {r \in password_reset_tokens :
                                      r.user_id \in calls[c].read /\ unused_and_unexpired(r)}}
       IN calls' = [calls EXCEPT ![c] =
                      Call("forgot", @.input, "commit",
                           [user_id |-> calls[c].read, existing_tokens |-> existing_tokens],
                           0, None)]
    /\ UNCHANGED <<locations, location_amenities, ratings, last, users,
                   password_reset_tokens, now>>

\* CRUDUser.create_password_reset_token from "token.is_used = True" to the
\* commit, and the rest of forgot_password: the email is sent or not, and the
\* answer is the same.
create_password_reset_token(c, email_sent) ==
    /\ c \in At("forgot", "commit")
    /\ LET existing_tokens == calls[c].read.existing_tokens
           user_id == CHOOSE id \in calls[c].read.user_id : TRUE
       IN password_reset_tokens' =
              {IF row.id \in existing_tokens THEN [row EXCEPT !.is_used = TRUE] ELSE row :
                  row \in password_reset_tokens}
              \cup {generate_token(user_id)}
    /\ calls' = [calls EXCEPT ![c] =
                    Call("forgot", @.input, "done", {email_sent}, HTTP_200_OK, success_response)]
    /\ UNCHANGED <<locations, location_amenities, ratings, last, users, now>>

\* POST /auth/reset-password, up to the answers of get_valid_password_reset_token
\* and CRUDUser.get: two reads with no write of this request in between.
reset_password(reset_data) ==
    /\ Len(calls) < MaxCalls
    /\ LET token_obj == get_valid_password_reset_token(reset_data.token)
           db_user == {row.user_id : row \in token_obj} \cap DOMAIN users
       IN calls' = Append(calls,
                          IF token_obj = {}
                          THEN Answered("reset", reset_data, HTTP_400_BAD_REQUEST,
                                        "invalid token")
                          ELSE IF db_user = {} \/ \E id \in db_user : ~users[id].is_active
                               THEN Answered("reset", reset_data, HTTP_400_BAD_REQUEST,
                                             "no such user")
                               ELSE Call("reset", reset_data, "update",
                                         [user_id |-> db_user,
                                          token_obj |-> {row.id : row \in token_obj}],
                                         0, None))
    /\ UNCHANGED <<locations, location_amenities, ratings, last, users,
                   password_reset_tokens, now>>

\* CRUDUser.update(db_obj, {"password": new_password}): commit.
CRUDUser_update(c) ==
    /\ c \in At("reset", "update")
    /\ users' = [id \in DOMAIN users |->
                    IF id \in calls[c].read.user_id
                    THEN [users[id] EXCEPT !.hashed_password =
                             get_password_hash(calls[c].input.new_password)]
                    ELSE users[id]]
    /\ calls' = [calls EXCEPT ![c].pc = "use_token"]
    /\ UNCHANGED <<locations, location_amenities, ratings, last, password_reset_tokens, now>>

\* CRUDUser.use_password_reset_token: token_obj.is_used = True, commit; then
\* reset_password answers.
use_password_reset_token(c) ==
    /\ c \in At("reset", "use_token")
    /\ password_reset_tokens' =
          {IF row.id \in calls[c].read.token_obj THEN [row EXCEPT !.is_used = TRUE] ELSE row :
              row \in password_reset_tokens}
    /\ calls' = [calls EXCEPT ![c] =
                    Answered("reset", @.input, HTTP_200_OK, "password updated")]
    /\ UNCHANGED <<locations, location_amenities, ratings, last, users, now>>

\* Emails of an active user, of a deactivated user and of no user.
Emails == {"admin@x.io", "gone@x.io", "nobody@x.io"}

\* A token issued to the admin before the run, and one issued to the account
\* "gone@x.io" before it was deactivated.
SeedTokens == {TokenRow(1, 1, expiration_hours, FALSE), TokenRow(2, 4, expiration_hours, FALSE)}

ResetPasswordSchema == [token : {1, 2, 3}, new_password : {"secret-2", "secret-3"}]

InitRecovery ==
    /\ locations = [id \in LocIds |-> SeedRow(id)]
    /\ location_amenities = SeedAmenities
    /\ ratings = SeedRatings
    /\ last = Response("none", 0, NoBody, HTTP_200_OK, {})
    /\ users = SeedUsers
    /\ password_reset_tokens = SeedTokens
    /\ now = 0
    /\ calls = <<>>

\* Requests for a reset link and password resets, while time passes.
NextReset ==
    \/ \E email \in Emails : forgot_password(email)
    \/ \E c \in DOMAIN calls : select_existing_tokens(c)
    \/ \E c \in DOMAIN calls, email_sent \in BOOLEAN : create_password_reset_token(c, email_sent)
    \/ \E reset_data \in ResetPasswordSchema : reset_password(reset_data)
    \/ \E c \in DOMAIN calls : CRUDUser_update(c)
    \/ \E c \in DOMAIN calls : use_password_reset_token(c)
    \/ tick

SpecReset == InitRecovery /\ [][NextReset]_vars

(***************************************************************************)
(* Properties.                                                             *)
(***************************************************************************)
\* toPoint(lat, lng): the SRID-4326 point of a coordinate pair.
toPoint(lat, lng) == [x |-> lng, y |-> lat, srid |-> 4326]

Range(seq) == {seq[i] : i \in DOMAIN seq}

AmenityRows(table, id) == {a \in table : a.location_id = id}

RatingRows(table, id) == {r \in table : r.location_id = id}

\* The step serves an update that returned the entity.
UpdateServed == last'.op = "update" /\ last'.status = HTTP_200_OK

HasCoordinate(body) == "latitude" \in DOMAIN body \/ "longitude" \in DOMAIN body

\* C1: after any sequence of create and update calls, every stored location's
\* geometry is the SRID-4326 point of its stored (latitude, longitude).
C1_GeometryConsistent ==
    \A id \in DOMAIN locations :
        locations[id].geom = toPoint(locations[id].latitude, locations[id].longitude)

\* C2: an update whose body holds latitude or longitude (or both) leaves the
\* location's geometry equal to the point of the merged pair: the body's value
\* for a coordinate it holds, the stored value for the one it omits.
C2_UpdateRecomputesGeometry ==
    [][(UpdateServed /\ HasCoordinate(last'.body)) =>
            LET id == last'.id
                lat == Get(last'.body, "latitude", locations[id].latitude)
                lng == Get(last'.body, "longitude", locations[id].longitude)
            IN locations'[id].geom = toPoint(lat, lng)]_vars

\* C3: an update whose body holds neither latitude nor longitude leaves the
\* location's geometry, latitude and longitude as they were.
C3_NonCoordinateUpdateKeepsGeometry ==
    [][(UpdateServed /\ ~HasCoordinate(last'.body)) =>
            LET id == last'.id
            IN /\ locations'[id].geom = locations[id].geom
               /\ locations'[id].latitude = locations[id].latitude
               /\ locations'[id].longitude = locations[id].longitude]_vars

\* C3 witness: an update of the name alone was served on a location whose
\* latitude an earlier update had moved; coordinates and geometry are kept.
C3_Witness ==
    /\ last.op = "update" /\ last.status = HTTP_200_OK
    /\ DOMAIN last.body = {"name", "amenities"}
    /\ locations[last.id].name = "C"
    /\ locations[last.id].latitude = 11
    /\ locations[last.id].geom = toPoint(10, 20)

\* C4: after an update whose body holds an amenities list L, the amenity rows
\* of the location are exactly the names of L (the former rows gone, one row
\* per name), and the amenity rows of other locations are untouched.
C4_AmenitiesReplaced ==
    [][(UpdateServed /\ "amenities" \in DOMAIN last'.body) =>
            LET id == last'.id
                L == last'.body.amenities
                old == AmenityRows(location_amenities, id)
                new == AmenityRows(location_amenities', id)
            IN /\ {a.name : a \in new} = Range(L)
               /\ Cardinality(new) = Len(L)
               /\ new \cap old = {}
               /\ location_amenities' \ new = location_amenities \ old]_vars

\* C5: the row change and the change of the amenity set of one call become
\* visible together: no step shows a location with the fields of a call that
\* carried amenities and not the amenity set of that call.
C5_RowAndAmenitiesTogether ==
    [][\A id \in DOMAIN locations \cap DOMAIN locations' :
            (locations'[id] # locations[id] /\ "amenities" \in DOMAIN last'.body) =>
                {a.name : a \in AmenityRows(location_amenities', id)}
                    = Range(last'.body.amenities)]_vars

C8_DeleteCascades ==
    [][/\ (last'.op = "delete" /\ last'.status = HTTP_200_OK) =>
            LET id == last'.id
            IN /\ id \in DOMAIN locations
               /\ DOMAIN locations' = DOMAIN locations \ {id}
               /\ \A other \in DOMAIN locations' : locations'[other] = locations[other]
               /\ AmenityRows(location_amenities', id) = {}
               /\ RatingRows(ratings', id) = {}
               /\ location_amenities' = location_amenities \ AmenityRows(location_amenities, id)
               /\ ratings' = ratings \ RatingRows(ratings, id)
       /\ \A id \in LocIds \ DOMAIN locations :
            /\ id \notin DOMAIN locations'
            /\ (last'.op = "read" /\ last'.id = id) => last'.status = HTTP_404_NOT_FOUND
            /\ AmenityRows(location_amenities', id) = {}
            /\ RatingRows(ratings', id) = {}]_vars

\* C8 witness: getById of a deleted location answered 404, no row references
\* it, and another location still has its rating row.
C8_Witness ==
    /\ last.op = "read" /\ last.status = HTTP_404_NOT_FOUND
    /\ last.id \in LocIds /\ last.id \notin DOMAIN locations
    /\ RatingRows(ratings, last.id) = {}
    /\ \E other \in DOMAIN locations : RatingRows(ratings, other) # {}

\* The sum of the rating values of a set of rows, value by value.
RECURSIVE SumByValue(_, _)
SumByValue(rows, values) ==
    IF values = {} THEN 0
    ELSE LET v == CHOOSE v \in values : TRUE
         IN v * Cardinality({r \in rows : r.rating = v})
                + SumByValue(rows, values \ {v})

\* avg is the mean of rows: None (<<>>) for no row, else a fraction p/q with
\* p * count = q * sum.
IsMeanOf(avg, rows) ==
    IF rows = {} THEN avg = <<>>
    ELSE /\ Len(avg) = 2 /\ avg[2] > 0
         /\ avg[1] * Cardinality(rows) = avg[2] * SumByValue(rows, {r.rating : r \in rows})

\* C9: average_rating of a location is the mean of the rating values of
\* exactly the rating rows attached to it now, at every read, and None (not
\* zero) when it has none.
C9_AverageRating ==
    /\ \A id \in DOMAIN locations : IsMeanOf(average_rating(id), RatingRows(ratings, id))
    /\ (last.op = "read" /\ last.status = HTTP_200_OK) =>
            \A out \in last.result :
                IsMeanOf(out.average_rating, RatingRows(ratings, last.id))

\* C9 witness: a read returned the mean 5/2 of the ratings 1 and 4 of location
\* 1 while location 2, which has no rating, has None.
C9_Witness ==
    /\ last.op = "read" /\ last.status = HTTP_200_OK /\ last.id = 1
    /\ \E out \in last.result : out.average_rating = <<5, 2>>
    /\ 2 \in DOMAIN locations /\ RatingRows(ratings, 2) = {}
    /\ average_rating(2) = <<>>

\* address_short as specified: the most specific resolved unit, then the
\* country, joined with ", "; the raw address when nothing is resolved.
SpecifiedAddressShort(row) ==
    LET unit == IF row.ward_id # NoneId THEN <<Wards[row.ward_id]>>
                ELSE IF row.district_id # NoneId THEN <<Districts[row.district_id]>>
                ELSE IF row.region_id # NoneId THEN <<Regions[row.region_id]>>
                ELSE <<>>
        country == IF row.country_id # NoneId THEN <<Countries[row.country_id]>> ELSE <<>>
    IN IF unit = <<>> /\ country = <<>> THEN row.address
       ELSE IF unit = <<>> THEN country[1]
       ELSE IF country = <<>> THEN unit[1]
       ELSE unit[1] \o ", " \o country[1]

\* C10: address_short is the name of the most specific resolved unit (ward,
\* else district, else region), then the country name if resolved, joined with
\* ", "; with neither resolved it is the raw address.
C10_AddressShort ==
    (last.op = "read" /\ last.status = HTTP_200_OK) =>
        \A out \in last.result :
            out.address_short = SpecifiedAddressShort(locations[last.id])

(***************************************************************************)
(* Properties of the filtered search.                                      *)
(***************************************************************************)
SearchServed == last.op = "search"

\* The ids of the locations a served search returned.
ReturnedIds == UNION {Range(env.items) : env \in last.result}

\* The request asks for the first page at a size that holds every location.
WholeResult == last.body.page = 1 /\ last.body.size = 100

\* The filters of the request other than those named in keys are absent.
OnlyFilters(keys) ==
    \A k \in DOMAIN NoFilters \ keys : last.body[k] = NoFilters[k]

\* The mean of the ratings of a location is at least m.
MeanAtLeast(id, m) ==
    /\ RatingRows(ratings, id) # {}
    /\ SumByValue(RatingRows(ratings, id), RatingValues)
            >= m * Cardinality(RatingRows(ratings, id))

\* C11: with min_rating = m the search returns a location iff it has a rating
\* and the mean of its ratings is >= m; with min_rating absent the ratings of
\* a location do not decide whether it is returned (stated for the active
\* locations, with no other filter, on a page that holds them all).
C11_MinRating ==
    (SearchServed /\ WholeResult /\ OnlyFilters({"min_rating"})) =>
        /\ \A m \in last.body.min_rating :
              ReturnedIds = {id \in DOMAIN locations :
                                locations[id].is_active /\ MeanAtLeast(id, m)}
        /\ last.body.min_rating = {} =>
              ReturnedIds = {id \in DOMAIN locations : locations[id].is_active}

\* The location owns an amenity row whose name contains the requested name.
OwnsAmenityLike(id, amenity_name) ==
    \E a \in AmenityRows(location_amenities, id) : contains(a.name, amenity_name)

\* C12: with an amenities list the search returns a location only if, for
\* every name of the list, the location itself owns an amenity row whose name
\* contains that name; a location owning only some of them is not returned.
C12_AllAmenities ==
    SearchServed =>
        \A names \in last.body.amenities :
            \A id \in ReturnedIds :
                \A i \in DOMAIN names : OwnsAmenityLike(id, names[i])

\* C12 witness: WiFi and Pool were asked for; location 1, which owns both, was
\* returned and the active location 2, which owns WiFi only, was not.
C12_Witness ==
    /\ SearchServed /\ last.status = HTTP_200_OK
    /\ last.body.amenities = {<<"WiFi", "Pool">>}
    /\ ReturnedIds = {1}
    /\ locations[2].is_active
    /\ OwnsAmenityLike(2, "WiFi") /\ ~OwnsAmenityLike(2, "Pool")

ForeignKeyFilters == {"country_id", "region_id", "district_id", "ward_id", "category_id"}

\* C13: each of country_id, region_id, district_id, ward_id and category_id,
\* when supplied, restricts the result to the locations whose foreign key of
\* that name equals the supplied value; none with another or a null value is
\* returned.
C13_ForeignKeyFilters ==
    SearchServed =>
        \A k \in ForeignKeyFilters :
            last.body[k] # NoneId =>
                \A id \in ReturnedIds : locations[id][k] = last.body[k]

\* The term occurs, whatever the case, in the name, the description or the
\* address of the location.
TermIn(id, term) ==
    \/ ilike(locations[id].name, term)
    \/ ilike(locations[id].description, term)
    \/ ilike(locations[id].address, term)

\* C14: with search_term the search returns a location iff the term occurs,
\* whatever the case, in its name, its description or its address (stated
\* for the active locations, with no other filter, on a page that holds them
\* all).
C14_SearchTerm ==
    (SearchServed /\ WholeResult /\ OnlyFilters({"search_term"})
        /\ last.body.search_term # None) =>
        ReturnedIds = {id \in DOMAIN locations :
                          locations[id].is_active /\ TermIn(id, last.body.search_term)}

ActiveIds == {id \in DOMAIN locations : locations[id].is_active}

\* C15: the search never returns a location whose is_active flag is false and
\* never counts one in total_items, whatever the filters: the items are
\* active, total_items is at most the number of active locations, and equal
\* to it when no filter is supplied.
C15_OnlyActive ==
    SearchServed =>
        /\ ReturnedIds \subseteq ActiveIds
        /\ \A env \in last.result :
              /\ env.total_items <= Cardinality(ActiveIds)
              /\ OnlyFilters({}) => env.total_items = Cardinality(ActiveIds)

\* C15 witness: a search without filters over a store with an inactive
\* location returned exactly the active ones and counted only them.
C15_Witness ==
    /\ SearchServed /\ last.status = HTTP_200_OK
    /\ WholeResult /\ OnlyFilters({})
    /\ ActiveIds # DOMAIN locations
    /\ ReturnedIds = ActiveIds /\ ReturnedIds # {}
    /\ \E env \in last.result : env.total_items = Cardinality(ActiveIds)

\* The locations that match the filters of the request served.
Matching ==
    {id \in DOMAIN locations :
        CRUDLocation_apply_filters(id, LocationFilterParams(last.body))}

\* rows is sorted: no row comes after one it has to precede.
IsSorted(rows, sort_by) ==
    \A i, j \in DOMAIN rows :
        i < j => ~CRUDLocation_apply_sorting(sort_by, rows[j], rows[i])

\* The matching locations that sort strictly before, and strictly after, x.
StrictlyBefore(x, sort_by) ==
    {y \in Matching : CRUDLocation_apply_sorting(sort_by, y, x)}
StrictlyAfter(x, sort_by) ==
    {y \in Matching : CRUDLocation_apply_sorting(sort_by, x, y)}

\* x can stand at position p (counted from 1) of the sorted list of the
\* matching locations: fewer than p of them sort strictly before it and no
\* more than the rest strictly after it.
StandsAt(x, p, sort_by) ==
    /\ x \in Matching
    /\ Cardinality(StrictlyBefore(x, sort_by)) < p
    /\ p <= Cardinality(Matching) - Cardinality(StrictlyAfter(x, sort_by))

\* items is the part of the sorted list of the matching locations from
\* position first (counted from 0) up to, but excluding, position first + size.
IsSlice(items, first, size, sort_by) ==
    /\ Len(items) = IF Cardinality(Matching) <= first THEN 0
                    ELSE IF Cardinality(Matching) - first < size
                         THEN Cardinality(Matching) - first
                    ELSE size
    /\ Injective(items)
    /\ IsSorted(items, sort_by)
    /\ \A k \in DOMAIN items : StandsAt(items[k], first + k, sort_by)

\* C16: for page >= 1 and size in 1..100 the items returned are the elements
\* at positions (page-1)*size up to, excluding, page*size of the sorted list
\* of the matching locations: at most size items, none past the last page.
C16_PageSlice ==
    (SearchServed /\ last.body.page >= 1
        /\ last.body.size >= 1 /\ last.body.size <= 100) =>
        /\ last.status # HTTP_422_UNPROCESSABLE_ENTITY
        /\ \A env \in last.result :
              /\ Len(env.items) <= last.body.size
              /\ IsSlice(env.items, (last.body.page - 1) * last.body.size,
                         last.body.size, last.body.sort_by)

\* C16 witness: page 2 at size 2 of three matching locations holds the third
\* one only.
C16_Witness ==
    /\ SearchServed /\ last.status = HTTP_200_OK
    /\ last.body.page = 2 /\ last.body.size = 2
    /\ Cardinality(Matching) = 3
    /\ \E env \in last.result : Len(env.items) = 1

\* C16 witness of the empty page: page 3 at size 2 of three matching
\* locations holds nothing.
C16_WitnessPastEnd ==
    /\ SearchServed /\ last.status = HTTP_200_OK
    /\ last.body.page = 3 /\ last.body.size = 2
    /\ Cardinality(Matching) = 3
    /\ \E env \in last.result : env.items = <<>>

\* C17: total_items is the number of distinct locations that satisfy the
\* filters, counted before pagination: it is the size of the match whatever
\* the page, the size and the sort option, and the number of items returned
\* when the page holds the whole result.
C17_TotalItems ==
    SearchServed =>
        \A env \in last.result :
            /\ env.total_items = Cardinality(Matching)
            /\ WholeResult => env.total_items = Cardinality(ReturnedIds)

\* C17 witness: page 2 at size 1, sorted by name descending, of a search for
\* a term that three locations match: one item, total_items 3.
C17_Witness ==
    /\ SearchServed /\ last.status = HTTP_200_OK
    /\ last.body.page = 2 /\ last.body.size = 1 /\ last.body.sort_by = NAME_DESC
    /\ last.body.search_term = "LE"
    /\ \E env \in last.result : env.total_items = 3 /\ Len(env.items) = 1

\* C18: total_pages is ceil(total_items / size), the least number of pages of
\* size items that hold total_items, when total_items > 0, and 0 when
\* total_items = 0.
C18_TotalPages ==
    SearchServed =>
        \A env \in last.result :
            /\ env.total_items > 0 =>
                  /\ env.total_pages * last.body.size >= env.total_items
                  /\ (env.total_pages - 1) * last.body.size < env.total_items
            /\ env.total_items = 0 => env.total_pages = 0

\* C19: out-of-range pagination is clamped, not rejected: a search with size
\* 150 is served as size 100 and one with page 0 as page 1, and neither fails
\* with a validation error.
C19_Clamped ==
    (SearchServed
        /\ \/ last.body.size = 150 /\ last.body.page >= 1
           \/ last.body.page = 0 /\ last.body.size >= 1 /\ last.body.size <= 100) =>
        /\ last.status = HTTP_200_OK
        /\ \A env \in last.result :
              /\ last.body.page = 0 => env.current_page = 1
              /\ last.body.size = 150 => Len(env.items) <= 100

\* C20: without a sort option the matching locations come by popularity_score
\* descending, as for sort_by = popularity_desc.
C20_DefaultSort ==
    (SearchServed /\ last.body.sort_by = None) =>
        \A env \in last.result : IsSorted(env.items, POPULARITY_DESC)

\* The ascending and the descending sort option of each sort key, and the
\* columns whose values the key stands for.
SortKeys ==
    {[asc |-> NAME_ASC, desc |-> NAME_DESC, columns |-> {"name"}],
     [asc |-> POPULARITY_ASC, desc |-> POPULARITY_DESC, columns |-> {"popularity_score"}],
     [asc |-> PRICE_ASC, desc |-> PRICE_DESC, columns |-> {"price_min", "price_max"}],
     [asc |-> RATING_ASC, desc |-> RATING_DESC, columns |-> {"avg_rating"}]}

\* The values of the column are non-null and pairwise distinct over ids.
DistinctNonNull(ids, column) ==
    /\ \A id \in ids : order_key(id, column) # {}
    /\ \A a, b \in ids : order_key(a, column) = order_key(b, column) => a = b

Reverse(seq) == [i \in DOMAIN seq |-> seq[Len(seq) + 1 - i]]

\* C30: for each sort key and matching locations whose values for the key are
\* pairwise distinct and non-null, the order of the descending option is the
\* exact reverse of the order of the ascending option (stated for a served
\* search with the descending option on a first page that holds the whole
\* result).
C30_DescReversesAsc ==
    (SearchServed /\ last.body.page = 1 /\ last.body.size >= Cardinality(Matching)) =>
        \A key \in SortKeys :
            (/\ last.body.sort_by = key.desc
             /\ \A column \in key.columns : DistinctNonNull(Matching, column)) =>
                \A env \in last.result :
                    \A ascending \in result_orders(Matching, key.asc) :
                        env.items = Reverse(ascending)

\* The client has read every page the first response announced.
AllPagesRead ==
    /\ last.op = "paging" /\ last.result # <<>>
    /\ Len(last.result) = last.result[1].total_pages

\* The number of times id occurs on the pages read.
Occurrences(id) ==
    Cardinality({<<k, i>> \in (DOMAIN last.result) \X (1..Cardinality(DOMAIN locations)) :
                    i \in DOMAIN last.result[k].items /\ last.result[k].items[i] = id})

\* C29: for a fixed filter, sort option and size, with no mutation in
\* between, the pages 1..total_pages together hold every matching location
\* exactly once, also when matching locations share a sort-key value.
C29_PagesPartition ==
    AllPagesRead => \A id \in Matching : Occurrences(id) = 1

NearbyServed == last.op = "nearby" /\ last.status = HTTP_200_OK

\* The locations the nearby request is about: inside the radius, and of the
\* category when one is given.
InReach ==
    {id \in DOMAIN locations :
        /\ distance_sort_key(id, last.body) <=
              (last.body.radius * 100) * (last.body.radius * 100)
        /\ (last.body.category_id # NoneId =>
               locations[id].category_id = last.body.category_id)}

\* C21: nearby returns the first `limit` entries of the list of the locations
\* within radiusKm * 1000 metres of the origin (of the category, when given)
\* by ascending distance: nothing outside the radius, no farther location
\* before a closer one, nothing closer left out, a location at the origin
\* first.
C21_Nearby ==
    NearbyServed =>
        \A rows \in last.result :
            /\ Range(rows) \subseteq InReach
            /\ Injective(rows)
            /\ Len(rows) = IF last.body.limit < Cardinality(InReach)
                           THEN last.body.limit ELSE Cardinality(InReach)
            /\ \A i, j \in DOMAIN rows :
                  i < j => distance_sort_key(rows[i], last.body)
                              <= distance_sort_key(rows[j], last.body)
            /\ \A out \in InReach \ Range(rows) : \A r \in Range(rows) :
                  distance_sort_key(r, last.body) <= distance_sort_key(out, last.body)
            /\ ((\E id \in InReach : distance_sort_key(id, last.body) = 0) /\ rows # <<>>)
                  => distance_sort_key(rows[1], last.body) = 0

\* A served request: a location at the origin and a farther one are returned
\* in that order, and a third location lies outside the radius.
C21_Witness ==
    /\ NearbyServed
    /\ \E rows \in last.result :
          /\ Len(rows) = 2
          /\ distance_sort_key(rows[1], last.body) = 0
          /\ distance_sort_key(rows[2], last.body) > 0
    /\ \E id \in DOMAIN locations :
          distance_sort_key(id, last.body) >
              (last.body.radius * 100) * (last.body.radius * 100)

\* The caller of token is an authenticated active user that is no superuser.
OrdinaryUser(token) ==
    /\ token \in DOMAIN users
    /\ users[token].is_active
    /\ ~users[token].is_superuser

\* C22: POST /locations/ succeeds only for an authenticated superuser or a
\* user whose role is admin; a request of an authenticated active user with
\* role "user" is answered 403, a request without credentials 401, and no
\* location is created in either case.
C22_CreateGuarded ==
    [][\A token \in Tokens, location_in \in CreateBodies :
          create_location(token, location_in) =>
              /\ (OrdinaryUser(token) /\ users[token].role = "user") =>
                    (last'.status = HTTP_403_FORBIDDEN /\ locations' = locations)
              /\ token = NoToken =>
                    (last'.status = HTTP_401_UNAUTHORIZED /\ locations' = locations)
              /\ last'.status \in {HTTP_200_OK, HTTP_201_CREATED} =>
                    /\ token \in DOMAIN users
                    /\ users[token].is_superuser \/ users[token].role = "admin"]_vars

\* A create request of an active user with role "user" was answered 403.
C22_Witness ==
    /\ last.op = "create" /\ last.status = HTTP_403_FORBIDDEN
    /\ \E token \in DOMAIN users : OrdinaryUser(token) /\ users[token].role = "user"

ListedRoles == {Role_SUPER_ADMIN, Role_ADMIN, Role_MODERATOR, Role_USER}

\* C24: an endpoint guarded by require_role with a list of roles serves an
\* authenticated active non-superuser whose role is listed, and answers 403
\* to one whose role is not listed.
C24_ListedRoles ==
    [][\A token \in Tokens :
          (get_all_continents(token) /\ OrdinaryUser(token)) =>
              IF users[token].role \in ListedRoles
              THEN last'.status = HTTP_200_OK
              ELSE last'.status = HTTP_403_FORBIDDEN]_vars

NoDuplicateEmails ==
    \A a, b \in DOMAIN users : users[a].email = users[b].email => a = b

\* C23: a register call for an email that already belongs to a user is
\* rejected and creates no user, at whichever step it meets the email; and
\* after any sequence of register calls, interleaved or not, no two users
\* have the same email.
C23_UniqueEmails ==
    /\ []NoDuplicateEmails
    /\ [][/\ \A user_in \in UserCreate :
                (register(user_in) /\ email_is_taken(user_in.email)) =>
                    /\ users' = users
                    /\ calls'[Len(calls')].status = HTTP_409_CONFLICT
          /\ \A c \in DOMAIN calls :
                (CRUDUser_create(c) /\ email_is_taken(calls[c].input.email)) =>
                    /\ users' = users
                    /\ calls'[c].status # HTTP_201_CREATED]_vars

\* Two register calls for one new email interleaved: both passed the check
\* of get_by_email, one created the user and the other was refused.
C23_Witness ==
    \E a, b \in DOMAIN calls :
        /\ a # b
        /\ calls[a].op = "register" /\ calls[b].op = "register"
        /\ calls[a].input.email = calls[b].input.email
        /\ calls[a].status = HTTP_201_CREATED
        /\ calls[b].status = HTTP_500_INTERNAL_SERVER_ERROR

AnsweredCalls(op) == {c \in DOMAIN calls : calls[c].op = op /\ calls[c].pc = "done"}

\* C25: a password-reset token leads to at most one successful password
\* change: of the reset_password requests that carry one token, whether one
\* follows the other or they interleave, at most one is answered 200.
C25_SingleUse ==
    \A a, b \in AnsweredCalls("reset") :
        (/\ calls[a].input.token = calls[b].input.token
         /\ calls[a].status = HTTP_200_OK
         /\ calls[b].status = HTTP_200_OK) => a = b

LiveTokens(user_id) ==
    {row \in password_reset_tokens :
        row.user_id = user_id /\ ~row.is_used /\ row.expires_at > now}

\* C26: after any sequence of create_password_reset_token calls, interleaved
\* or not, each user has at most one token that is unused and unexpired.
C26_OneLiveToken ==
    \A user_id \in DOMAIN users : Cardinality(LiveTokens(user_id)) <= 1

\* C27: PasswordResetToken.is_valid and get_valid_password_reset_token agree
\* for every token at every instant: the lookup returns the token exactly
\* when is_valid is true for it.
C27_ValidityAgrees ==
    \A row \in password_reset_tokens :
        is_valid(row) <=> row \in get_valid_password_reset_token(row.token)

\* C28: forgot_password answers with the same status and the same body
\* whether the email belongs to an active user, to an inactive user or to no
\* user, and whether or not the reset email was sent.
C28_SameAnswer ==
    \A a, b \in AnsweredCalls("forgot") :
        calls[a].status = calls[b].status /\ calls[a].body = calls[b].body

\* A request for an active user whose email could not be sent and a request
\* for an email of no user have both been answered.
C28_Witness ==
    \E a, b \in AnsweredCalls("forgot") :
        /\ calls[a].input = "admin@x.io" /\ calls[a].read = {FALSE}
        /\ calls[b].input = "nobody@x.io"

====
